---- MODULE Spec2Model ----
(***************************************************************************)
(* A model of statustracker (jimberlage/msak_est): the JQL builder, the    *)
(* field resolver, the paginated search client, the issue classifier and   *)
(* the estimate tally, and the csv / estimate commands that chain them.    *)
(*                                                                         *)
(* Strings that the code inspects character by character are sequences of  *)
(* one-character strings.  An f64 is an exact rational [n, d] (d > 0), or   *)
(* one of the three non-finite values with d = 0; every sum and product    *)
(* the model forms is of small dyadic values, which f64 computes exactly.  *)
(***************************************************************************)
EXTENDS Integers, Sequences, FiniteSets, TLC

VARIABLES
    pc,                 \* position of cli::csv::run / cli::estimate::run
    cmd,                \* StatusTracker variant: "csv" or "estimate"
    jira_project,       \* args.jira_project
    jira_label,         \* args.jira_label
    jira_issue_type,    \* args.jira_issue_type
    requests,           \* every request sent to the tracker, in order
    pages,              \* issue count of every search response received
    field_ids,          \* run's local field_ids
    maybe_jql,          \* run's local jql / maybe_jql (a Result)
    start_at,           \* search's local start_at
    result,             \* search's local result (issue keys)
    search_ret,         \* the value search returned (a Result)
    stderr,             \* what run wrote to stderr
    output,             \* what run wrote to stdout
    arg,                \* the input of the pure function under check
    ret                 \* the value the pure function returned

pipeline_vars == <<pc, cmd, jira_project, jira_label, jira_issue_type, requests,
                   pages, field_ids, maybe_jql, start_at, result, search_ret,
                   stderr, output>>

vars == <<pc, cmd, jira_project, jira_label, jira_issue_type, requests,
          pages, field_ids, maybe_jql, start_at, result, search_ret,
          stderr, output, arg, ret>>

----------------------------------------------------------------------------
(* Bounds of the model. *)

\* Page requests one search call may make before the server must end it.
MaxPages == 4

\* Field descriptors in one GET /field response.
MaxFields == 2

\* The sequences of length 0..n over S.
Lists(S, n) == UNION {[1..k -> S] : k \in 0..n}

----------------------------------------------------------------------------
(* Option and Result values. *)

None == [some |-> FALSE]

Some(v) == [some |-> TRUE, v |-> v]

Ok(v) == [ok |-> TRUE, v |-> v]

Err(e) == [ok |-> FALSE, e |-> e]

----------------------------------------------------------------------------
(* jira/jql.rs: escape_text_field and JQLValue::serialize_internal *)

\* '+' | '-' | '&' | '|' | '!' | '(' | ')' | '{' | '}' | '[' | ']' | '^' |
\* '~' | '*' | '?' | '\\' | ':'
ReservedChars ==
    {"+", "-", "&", "|", "!", "(", ")", "{", "}", "[", "]", "^", "~", "*",
     "?", "\\", ":"}

\* A match that puts one backslash before a reserved character.
escape_char_single(c) ==
    (IF c = "\"" \/ c \in ReservedChars THEN <<"\\">> ELSE <<>>) \o <<c>>

\* One turn of the loop over s.chars(): what is pushed for c.
escape_char(c) ==
    (IF c = "\"" THEN <<"\\">>
     ELSE IF c \in ReservedChars THEN <<"\\", "\\">>
     ELSE <<>>) \o <<c>>

RECURSIVE escape_text_field(_)
escape_text_field(s) ==
    IF s = <<>> THEN <<>>
    ELSE escape_char(Head(s)) \o escape_text_field(Tail(s))

\* format!("\"{}\"", escape_text_field(contents))
JQLValue_serialize_internal(value) ==
    <<"\"">> \o escape_text_field(value.contents) \o <<"\"">>

----------------------------------------------------------------------------
(* jira.rs: build_issue_search_jql *)

TooBroadMessage == "This command will search all projects & labels.  To avoid crawling your entire JIRA instance, you must supply at least one project or a label to narrow the search."

JQLValueString(s) == [tag |-> "String", contents |-> s]

JQLClauseIn(field, values) ==
    [tag |-> "In", field |-> field,
     values |-> [i \in 1..Len(values) |-> JQLValueString(values[i])]]

JQLClauseAnd(clauses) == [tag |-> "And", clauses |-> clauses]

\* The clause pushed for one input list: nothing when the list is empty.
PushIn(field, values) ==
    IF values # <<>> THEN <<JQLClauseIn(field, values)>> ELSE <<>>

\* A build that lets any non-empty list narrow the search.
build_issue_search_jql_any(projects, labels, included_issue_types) ==
    IF projects = <<>> /\ labels = <<>> /\ included_issue_types = <<>>
    THEN Err(TooBroadMessage)
    ELSE Ok([clause |-> JQLClauseAnd(PushIn("project", projects)
                                     \o PushIn("labels", labels)
                                     \o PushIn("issuetype", included_issue_types))])

\* A build that pushes the labels clause before the project clause.
build_issue_search_jql_labels_first(projects, labels, included_issue_types) ==
    IF projects = <<>> /\ labels = <<>>
    THEN Err(TooBroadMessage)
    ELSE Ok([clause |-> JQLClauseAnd(PushIn("labels", labels)
                                     \o PushIn("project", projects)
                                     \o PushIn("issuetype", included_issue_types))])

build_issue_search_jql(projects, labels, included_issue_types) ==
    IF projects = <<>> /\ labels = <<>>
    THEN Err(TooBroadMessage)
    ELSE Ok([clause |-> JQLClauseAnd(PushIn("project", projects)
                                     \o PushIn("labels", labels)
                                     \o PushIn("issuetype", included_issue_types))])

----------------------------------------------------------------------------
(* jira/jql.rs: JQLClause::serialize_internal and JQLStatement *)

\* The characters of the field names build_issue_search_jql gives to
\* JQLClause::In ("project".to_owned() and so on).
FieldText(field) ==
    CASE field = "project"   -> <<"p", "r", "o", "j", "e", "c", "t">>
      [] field = "labels"    -> <<"l", "a", "b", "e", "l", "s">>
      [] field = "issuetype" -> <<"i", "s", "s", "u", "e", "t", "y", "p", "e">>

\* [String]::join(sep)
RECURSIVE join(_, _)
join(strings, sep) ==
    IF strings = <<>> THEN <<>>
    ELSE IF Len(strings) = 1 THEN strings[1]
    ELSE strings[1] \o sep \o join(Tail(strings), sep)

RECURSIVE JQLClause_serialize_internal(_)
JQLClause_serialize_internal(clause) ==
    IF clause.tag = "And"
    THEN LET joined_clauses ==
                 join([i \in 1..Len(clause.clauses) |->
                          JQLClause_serialize_internal(clause.clauses[i])],
                      <<" ", "A", "N", "D", " ">>)
         IN  <<"(">> \o joined_clauses \o <<")">>
    ELSE LET joined_values ==
                 join([i \in 1..Len(clause.values) |->
                          JQLValue_serialize_internal(clause.values[i])],
                      <<",", " ">>)
         IN  FieldText(clause.field) \o <<" ", "I", "N", " ", "(">>
             \o joined_values \o <<")">>

JQLStatement_serialize_internal(statement) ==
    JQLClause_serialize_internal(statement.clause)

----------------------------------------------------------------------------
(* jira.rs: RestClient::get_story_point_field_ids *)

Field(id, name) == [id |-> id, name |-> name]

\* The descriptors a tracker may answer GET /field with: two custom fields
\* sharing a display name, one whose name differs only in case, and one
\* with another name.
FieldUniverse ==
    {Field("customfield_1", "Story Points"),
     Field("customfield_2", "Story Points"),
     Field("customfield_3", "story points"),
     Field("customfield_4", "Sprint")}

\* --jira-story-points-field
jira_story_points_field == "Story Points"

RECURSIVE filter_map_ids(_, _)
filter_map_ids(fields, name) ==
    IF fields = <<>> THEN <<>>
    ELSE (IF name = Head(fields).name THEN <<Head(fields).id>> ELSE <<>>)
         \o filter_map_ids(Tail(fields), name)

\* A resolver that stops at the first descriptor that matches.
get_story_point_field_ids_first(fields, name) ==
    LET all == filter_map_ids(fields, name)
    IN  IF all = <<>> THEN <<>> ELSE <<Head(all)>>

get_story_point_field_ids(fields, name) == filter_map_ids(fields, name)

----------------------------------------------------------------------------
(* jira.rs: RestClient::search and single_page_search *)

\* let max_results = 100u64
max_results == 100

\* Issue counts a tracker may put in one search response: empty, short,
\* exactly the page size, and more than was asked for.
PageSizes == {0, 37, max_results, max_results + 1}

GetFieldRequest == [method |-> "GET", path |-> "/field"]

SearchRequest(fields, jql, s, m) ==
    [method |-> "POST", path |-> "/search", fields |-> fields, jql |-> jql,
     startAt |-> s, maxResults |-> m]

\* The issues of a response: the tracker's issues at offsets s+1 .. s+n,
\* each named by its offset in the tracker's result set.
SearchResponse(s, n) == [issues |-> [i \in 1..n |-> s + i]]

----------------------------------------------------------------------------
(* f64 arithmetic, as estimate.rs uses it. *)

Abs(x) == IF x < 0 THEN -x ELSE x

Sign(x) == IF x < 0 THEN -1 ELSE IF x = 0 THEN 0 ELSE 1

RECURSIVE Gcd(_, _)
Gcd(a, b) == IF b = 0 THEN a ELSE Gcd(b, a % b)

\* The finite f64 n/d (d # 0), in lowest terms with a positive denominator.
F64(n, d) ==
    LET g == Gcd(Abs(n), Abs(d))
    IN  [n |-> Sign(d) * (Abs(n) \div g) * Sign(n), d |-> Abs(d) \div g]

FAdd(a, b) == F64(a.n * b.d + b.n * a.d, a.d * b.d)

FMul(a, b) == F64(a.n * b.n, a.d * b.d)

\* IEEE 754 division of finite values: x/0 is an infinity, 0/0 is NaN
\* (n = 0, d = 0).
FDiv(a, b) ==
    IF b.n = 0 THEN [n |-> Sign(a.n), d |-> 0]
    ELSE F64(a.n * b.d, a.d * b.n)

----------------------------------------------------------------------------
(* serde_json::Value, and util.rs: get_string_in_json *)

JNull == [t |-> "null"]

JNum(q) == [t |-> "num", n |-> q]

JStr(s) == [t |-> "str", s |-> s]

JObj(m) == [t |-> "obj", m |-> m]

\* Map::get / HashMap::get
Get(m, k) == IF k \in DOMAIN m THEN Some(m[k]) ELSE None

\* The loop of get_string_in_json over path[i], i < len - 1 (1-based here):
\* current_value moves only when it is an object that holds path[i].
RECURSIVE walk_path(_, _, _)
walk_path(current_value, path, i) ==
    IF i > Len(path) - 1 THEN current_value
    ELSE LET inner == IF current_value.t = "obj"
                      THEN Get(current_value.m, path[i]) ELSE None
         IN  walk_path(IF inner.some THEN inner.v ELSE current_value, path, i + 1)

get_string_in_json(value, path) ==
    IF path = <<>> THEN None
    ELSE LET current_value == walk_path(value, path, 1)
             inner == IF current_value.t = "obj"
                      THEN Get(current_value.m, path[Len(path)]) ELSE None
         IN  IF inner.some /\ inner.v.t = "str" THEN Some(inner.v.s) ELSE None

----------------------------------------------------------------------------
(* jira.rs: Issue *)

Issue(key, fields) == [id |-> key, key |-> key, fields |-> fields]

status_category(issue) ==
    LET status_obj == Get(issue.fields, "status")
    IN  IF status_obj.some
        THEN get_string_in_json(status_obj.v, <<"statusCategory", "name">>)
        ELSE None

\* Number::as_f64 yields a value for every number a JSON document holds.
RECURSIVE story_points_from(_, _, _)
story_points_from(issue, ids, i) ==
    IF i > Len(ids) THEN None
    ELSE LET value == Get(issue.fields, ids[i])
         IN  IF value.some /\ value.v.t = "num" THEN Some(value.v.n)
             ELSE story_points_from(issue, ids, i + 1)

story_points(issue, ids) == story_points_from(issue, ids, 1)

----------------------------------------------------------------------------
(* cli/estimate.rs: classify and Results::tally *)

Complete == [tag |-> "Complete"]

IncompleteAndPointed(points) == [tag |-> "IncompleteAndPointed", points |-> points]

IncompleteAndUnpointed == [tag |-> "IncompleteAndUnpointed"]

classify(issue, ids) ==
    LET status == status_category(issue)
        points == story_points(issue, ids)
    IN  IF status.some /\ status.v = "Done" THEN Complete
        ELSE IF points.some
             THEN IF points.v = F64(0, 1) THEN IncompleteAndUnpointed
                  ELSE IncompleteAndPointed(points.v)
             ELSE IncompleteAndUnpointed

\* The Results value tally starts from.
new_results(default_story_points, velocity_in_story_points) ==
    [default_story_points |-> default_story_points,
     num_complete |-> F64(0, 1),
     num_incomplete_and_pointed |-> F64(0, 1),
     num_incomplete_and_unpointed |-> F64(0, 1),
     num_sprints_remaining |-> F64(0, 1),
     unfinished_estimated_story_points |-> F64(0, 1),
     unfinished_story_points |-> F64(0, 1),
     unfinished_unestimated_story_points |-> F64(0, 1),
     velocity_in_story_points |-> velocity_in_story_points]

\* A match arm that counts a pointed issue without adding its points.
tally_match_no_sum(results, classified) ==
    IF classified.tag = "Complete"
    THEN [results EXCEPT !.num_complete = FAdd(@, F64(1, 1))]
    ELSE IF classified.tag = "IncompleteAndPointed"
    THEN [results EXCEPT !.num_incomplete_and_pointed = FAdd(@, F64(1, 1))]
    ELSE [results EXCEPT !.num_incomplete_and_unpointed = FAdd(@, F64(1, 1))]

\* The body of tally's loop: the match on one classified issue.
tally_match(results, classified) ==
    IF classified.tag = "Complete"
    THEN [results EXCEPT !.num_complete = FAdd(@, F64(1, 1))]
    ELSE IF classified.tag = "IncompleteAndPointed"
    THEN [results EXCEPT !.num_incomplete_and_pointed = FAdd(@, F64(1, 1)),
                         !.unfinished_estimated_story_points =
                             FAdd(@, classified.points)]
    ELSE [results EXCEPT !.num_incomplete_and_unpointed = FAdd(@, F64(1, 1))]

\* for issue in issues { match classify(issue, field_ids) { .. } } over
\* issues[lo..hi], in order.  The range is halved, and the first half's
\* value demanded (first = first) before the second half starts, only to
\* bound the depth of TLC's evaluation.
RECURSIVE tally_loop(_, _, _, _, _)
tally_loop(issues, ids, lo, hi, results) ==
    IF lo > hi THEN results
    ELSE IF lo = hi THEN tally_match(results, classify(issues[lo], ids))
    ELSE LET mid == (lo + hi) \div 2
             first == tally_loop(issues, ids, lo, mid, results)
         IN  IF first = first
             THEN tally_loop(issues, ids, mid + 1, hi, first)
             ELSE first

\* The three assignments after the loop.
tally_finish(results) ==
    LET unestimated == FMul(results.num_incomplete_and_unpointed,
                            results.default_story_points)
        unfinished == FAdd(results.unfinished_estimated_story_points, unestimated)
    IN  [results EXCEPT !.unfinished_unestimated_story_points = unestimated,
                        !.unfinished_story_points = unfinished,
                        !.num_sprints_remaining =
                            FDiv(unfinished, results.velocity_in_story_points)]

tally(issues, ids, default_story_points, velocity_in_story_points) ==
    tally_finish(tally_loop(issues, ids, 1, Len(issues),
                            new_results(default_story_points,
                                        velocity_in_story_points)))

----------------------------------------------------------------------------
(* The tracker, as the commands see it. *)

\* The fields of the issue at offset k of the tracker's result set: a Done
\* issue with points, a pointed one, an unpointed one, one estimated at zero.
TrackerFields(k) ==
    LET done == JObj([statusCategory |-> JObj([name |-> JStr("Done")]),
                      name |-> JStr("Closed")])
        open == JObj([statusCategory |-> JObj([name |-> JStr("To Do")]),
                      name |-> JStr("Open")])
    IN  CASE k % 4 = 0 -> [status |-> done, customfield_1 |-> JNum(F64(5, 1))]
          [] k % 4 = 1 -> [status |-> open, customfield_1 |-> JNum(F64(3, 1))]
          [] k % 4 = 2 -> [status |-> open, customfield_1 |-> JNull]
          [] OTHER     -> [status |-> open, customfield_1 |-> JNum(F64(0, 1))]

TrackerIssue(k) == Issue(k, TrackerFields(k))

\* The values of --jira-project, --jira-label and --jira-issue-type.
ProjectKey == <<"P", "R", "O", "J">>

LabelName == <<"q", "3", "-", "g", "o", "a", "l">>

IssueTypeName == <<"B", "u", "g">>

\* --jira-url, --default-story-points (its default) and
\* --velocity-in-story-points of the modelled invocations.
jira_url == "https://jira.example"

default_story_points == F64(3, 1)

velocity_in_story_points == F64(4, 1)

----------------------------------------------------------------------------
(* jira.rs: the pieces of RestClient::search *)

\* if num_responses <= max_results { break }
is_last_page_le(num_responses) == num_responses <= max_results

\* if num_responses < max_results { break }
is_last_page(num_responses) == num_responses < max_results

\* start_at = start_at + max_results
next_start_at_page(s, num_responses) == s + max_results

\* start_at = start_at + num_responses
next_start_at(s, num_responses) == s + num_responses

\* A search that answers a failed page with the issues it already holds.
page_error_partial(fetched, e) == Ok(fetched)

\* single_page_search(..)? : the error leaves search at once and the
\* accumulated result vector is dropped.
page_error(fetched, e) == Err(e)

----------------------------------------------------------------------------
(* cli/csv.rs and cli/estimate.rs: run.  Both commands take the same     *)
(* steps up to the output.  estimate.rs names the client's search_all and  *)
(* story_points; they are jira.rs's RestClient::search and                 *)
(* Issue::story_points.  A failed unwrap ends the run at pc = "panic".     *)

CSVIssue(issue, ids) ==
    [key |-> issue.key,
     story_points |-> story_points(issue, ids),
     status |-> status_category(issue),
     link |-> <<jira_url, "/browse/", issue.key>>]

Init ==
    /\ pc = "new_client"
    /\ cmd \in {"csv", "estimate"}
    /\ jira_project \in {<<>>, <<ProjectKey>>}
    /\ jira_label \in {<<>>, <<LabelName>>}
    /\ jira_issue_type \in {<<>>, <<IssueTypeName>>}
    /\ requests = <<>>
    /\ pages = <<>>
    /\ field_ids = <<>>
    /\ maybe_jql = None
    /\ start_at = 0
    /\ result = <<>>
    /\ search_ret = None
    /\ stderr = <<>>
    /\ output = <<>>
    /\ arg = None
    /\ ret = None

\* RestClient::new(..) succeeds, or fails and run's unwrap panics.
NewClient ==
    /\ pc = "new_client"
    /\ pc' \in {"get_fields", "panic"}
    /\ UNCHANGED <<cmd, jira_project, jira_label, jira_issue_type, requests,
                   pages, field_ids, maybe_jql, start_at, result, search_ret,
                   stderr, output, arg, ret>>

\* client.get_story_point_field_ids(..).unwrap(): GET /field answered with
\* a list of descriptors.
GetStoryPointFieldIds ==
    /\ pc = "get_fields"
    /\ requests' = Append(requests, GetFieldRequest)
    /\ \E fields \in Lists(FieldUniverse, MaxFields) :
           field_ids' = get_story_point_field_ids(fields, jira_story_points_field)
    /\ pc' = "build_jql"
    /\ UNCHANGED <<cmd, jira_project, jira_label, jira_issue_type, pages,
                   maybe_jql, start_at, result, search_ret, stderr, output,
                   arg, ret>>

\* GET /field fails (transport or deserialization): unwrap panics.
GetFieldsFails ==
    /\ pc = "get_fields"
    /\ requests' = Append(requests, GetFieldRequest)
    /\ pc' = "panic"
    /\ UNCHANGED <<cmd, jira_project, jira_label, jira_issue_type, pages,
                   field_ids, maybe_jql, start_at, result, search_ret, stderr,
                   output, arg, ret>>

\* field_ids.push("status"); build_issue_search_jql; on Err print it and
\* exit(1), otherwise enter search with start_at = 0 and an empty result.
BuildJql ==
    /\ pc = "build_jql"
    /\ field_ids' = Append(field_ids, "status")
    /\ maybe_jql' = build_issue_search_jql(jira_project, jira_label, jira_issue_type)
    /\ IF maybe_jql'.ok
       THEN /\ pc' = "search"
            /\ stderr' = stderr
       ELSE /\ pc' = "exit_1"
            /\ stderr' = Append(stderr, maybe_jql'.e)
    /\ start_at' = 0
    /\ result' = <<>>
    /\ UNCHANGED <<cmd, jira_project, jira_label, jira_issue_type, requests,
                   pages, search_ret, output, arg, ret>>

\* One turn of search's loop, the page request answered with n issues.  The
\* tracker's result set is finite: by request MaxPages the page is short.
SinglePageSearch ==
    /\ pc = "search"
    /\ \E n \in PageSizes :
        /\ Len(pages) + 1 < MaxPages \/ n < max_results
        /\ LET response == SearchResponse(start_at, n)
               num_responses == Len(response.issues)
           IN  /\ requests' = Append(requests,
                                     SearchRequest(field_ids, maybe_jql.v,
                                                   start_at, max_results))
               /\ pages' = Append(pages, num_responses)
               /\ result' = result \o response.issues
               /\ IF is_last_page(num_responses)
                  THEN /\ search_ret' = Ok(result')
                       /\ start_at' = start_at
                       /\ pc' = "output"
                  ELSE /\ search_ret' = search_ret
                       /\ start_at' = next_start_at(start_at, num_responses)
                       /\ pc' = "search"
    /\ UNCHANGED <<cmd, jira_project, jira_label, jira_issue_type, field_ids,
                   maybe_jql, stderr, output, arg, ret>>

\* One turn of search's loop, the page request failing: search returns the
\* error and run's unwrap panics.
SinglePageSearchFails ==
    /\ pc = "search"
    /\ requests' = Append(requests,
                          SearchRequest(field_ids, maybe_jql.v, start_at, max_results))
    /\ search_ret' = page_error(result, "reqwest::Error")
    /\ result' = <<>>
    /\ pc' = "panic"
    /\ UNCHANGED <<cmd, jira_project, jira_label, jira_issue_type, pages,
                   field_ids, maybe_jql, start_at, stderr, output, arg, ret>>

\* csv: one row per issue.  estimate: Results::tally and the number of
\* sprints remaining.
WriteOutput ==
    /\ pc = "output"
    /\ LET issues == [i \in 1..Len(search_ret.v) |-> TrackerIssue(search_ret.v[i])]
       IN  output' =
             IF cmd = "csv"
             THEN [i \in 1..Len(issues) |-> CSVIssue(issues[i], field_ids)]
             ELSE <<tally(issues, field_ids, default_story_points,
                          velocity_in_story_points).num_sprints_remaining>>
    /\ pc' = "done"
    /\ UNCHANGED <<cmd, jira_project, jira_label, jira_issue_type, requests,
                   pages, field_ids, maybe_jql, start_at, result, search_ret,
                   stderr, arg, ret>>

Next ==
    \/ NewClient
    \/ GetStoryPointFieldIds
    \/ GetFieldsFails
    \/ BuildJql
    \/ SinglePageSearch
    \/ SinglePageSearchFails
    \/ WriteOutput

Spec == Init /\ [][Next]_vars

----------------------------------------------------------------------------
(* What the claims about a command run speak of. *)

IsSearchRequest(r) == r.path = "/search"

SearchRequests == SelectSeq(requests, IsSearchRequest)

\* search has returned Ok to run.
SearchReturned == pc \in {"output", "done"}

\* A page request of search has failed.
SearchFailed == pc = "panic" /\ Len(SearchRequests) > 0

RECURSIVE SumTo(_, _)
SumTo(sizes, k) == IF k = 0 THEN 0 ELSE SumTo(sizes, k - 1) + sizes[k]

\* The issues of the first k pages received, page after page, each page
\* being what the tracker holds at the offset that request asked for.
RECURSIVE PagesConcat(_)
PagesConcat(k) ==
    IF k = 0 THEN <<>>
    ELSE PagesConcat(k - 1)
         \o SearchResponse(SearchRequests[k].startAt, pages[k]).issues

\* C1: a run of csv or estimate that ends with the too-broad validation
\* error has sent no request to the tracker, neither GET /field nor
\* POST /search.
TooBroadSendsNoRequest ==
    pc = "exit_1" => requests = <<>>

\* A run ended with the too-broad error after GET /field had been sent.
TooBroadAfterGetField ==
    /\ pc = "exit_1"
    /\ requests = <<GetFieldRequest>>
    /\ stderr = <<TooBroadMessage>>

\* The part of C1 about the search endpoint alone: a run that ends with
\* the too-broad error has sent no POST /search.
TooBroadSendsNoSearch ==
    pc = "exit_1" => /\ SearchRequests = <<>>
                     /\ stderr = <<TooBroadMessage>>

\* C3: against a tracker that answers every page, search goes on exactly
\* while the pages hold at least 100 issues, returns right after the first
\* page of fewer than 100, one request per page, and returns the issues of
\* all pages received, the short one included, in request order; pages of
\* 100, 100, 37 give 237 issues after 3 requests and pages of 100, 100,
\* 100, 0 give 300 issues after 4.
SearchStopsAtFirstShortPage ==
    /\ pc = "search" =>
          /\ Len(SearchRequests) = Len(pages)
          /\ \A k \in 1..Len(pages) : pages[k] >= 100
    /\ SearchReturned =>
          /\ Len(pages) >= 1
          /\ Len(SearchRequests) = Len(pages)
          /\ pages[Len(pages)] < 100
          /\ \A k \in 1..(Len(pages) - 1) : pages[k] >= 100
          /\ search_ret = Ok(PagesConcat(Len(pages)))
          /\ Len(search_ret.v) = SumTo(pages, Len(pages))
          /\ pages = <<100, 100, 37>> =>
                Len(search_ret.v) = 237 /\ Len(SearchRequests) = 3
          /\ pages = <<100, 100, 100, 0>> =>
                Len(search_ret.v) = 300 /\ Len(SearchRequests) = 4

\* search has returned 300 issues after a fourth, empty page.
SearchStopsWitness ==
    /\ pc = "done"
    /\ pages = <<100, 100, 100, 0>>
    /\ Len(search_ret.v) = 300

\* C4: when a page request of search fails, search returns the error and
\* none of the issues of the pages before it, nothing is written to
\* stdout, and the failed request is the last one sent: one request per
\* page received plus the failed one.
SearchFailureIsFatal ==
    SearchFailed =>
        /\ search_ret = Err("reqwest::Error")
        /\ result = <<>>
        /\ output = <<>>
        /\ Len(SearchRequests) = Len(pages) + 1
        /\ requests[Len(requests)] = SearchRequests[Len(pages) + 1]

\* The third page request failed after 200 issues had been fetched.
SearchFailureWitness ==
    /\ SearchFailed
    /\ pages = <<100, 100>>
    /\ SearchRequests[3].startAt = 200

\* C5: every page request of one search call asks for 100 issues at the
\* offset that is the number of issues all earlier pages returned (0 for
\* the first); the offsets increase strictly, so none is asked for twice.
OffsetAdvancesByReturnedCount ==
    /\ \A k \in 1..Len(SearchRequests) :
          /\ SearchRequests[k].maxResults = 100
          /\ k <= Len(pages) + 1
          /\ SearchRequests[k].startAt = SumTo(pages, k - 1)
    /\ \A j, k \in 1..Len(SearchRequests) :
          j < k => SearchRequests[j].startAt < SearchRequests[k].startAt

\* A third request was sent after a page of 101 and a page of 100 issues.
OffsetAdvancesWitness ==
    /\ Len(SearchRequests) = 3
    /\ pages[1] = 101
    /\ pages[2] = 100
    /\ SearchRequests[3].startAt = 201

----------------------------------------------------------------------------
(* The functions on their own: each specification below draws an input    *)
(* into arg and applies one function of the code to it, leaving the value  *)
(* it returns in ret.  No command runs.                                    *)

NoRun ==
    /\ pc = "none"
    /\ cmd = "none"
    /\ jira_project = <<>>
    /\ jira_label = <<>>
    /\ jira_issue_type = <<>>
    /\ requests = <<>>
    /\ pages = <<>>
    /\ field_ids = <<>>
    /\ maybe_jql = None
    /\ start_at = 0
    /\ result = <<>>
    /\ search_ret = None
    /\ stderr = <<>>
    /\ output = <<>>

\* Values in one list given to build_issue_search_jql.
MaxValues == 2

\* Text values given to the builder: a plain one and one to escape.
ValueUniverse == {<<"A">>, <<"a", "+", "b">>}

InitBuild ==
    /\ NoRun
    /\ arg \in [projects : Lists(ValueUniverse, MaxValues),
                labels : Lists(ValueUniverse, MaxValues),
                included_issue_types : Lists(ValueUniverse, MaxValues)]
    /\ ret = None

Build ==
    /\ ret = None
    /\ ret' = Some(build_issue_search_jql(arg.projects, arg.labels,
                                          arg.included_issue_types))
    /\ UNCHANGED <<pipeline_vars, arg>>

SpecBuild == InitBuild /\ [][Build]_vars

\* The display names asked for.
FieldNames == {"Story Points", "story points", "Epic Link"}

InitFields ==
    /\ NoRun
    /\ arg \in [fields : Lists(FieldUniverse, MaxFields), name : FieldNames]
    /\ ret = None

ResolveFields ==
    /\ ret = None
    /\ ret' = Some(get_story_point_field_ids(arg.fields, arg.name))
    /\ UNCHANGED <<pipeline_vars, arg>>

SpecFields == InitFields /\ [][ResolveFields]_vars

\* Characters of a text value after the fixed examples.
MaxLen == 2

\* The quote, the seventeen reserved characters and two plain ones.
Alphabet == ReservedChars \cup {"\"", "a", " "}

EscapeExamples ==
    {<<"f", "o", "o", "\"", "b", "a", "r">>, <<"a", "+", "b">>}

InitEscape ==
    /\ NoRun
    /\ arg \in Lists(Alphabet, MaxLen) \cup EscapeExamples
    /\ ret = None

SerializeValue ==
    /\ ret = None
    /\ ret' = Some(JQLValue_serialize_internal(JQLValueString(arg)))
    /\ UNCHANGED <<pipeline_vars, arg>>

SpecEscape == InitEscape /\ [][SerializeValue]_vars

OptionOf(S) == {None} \cup {Some(v) : v \in S}

\* The fields map holding the given optional values of status and of two
\* custom fields.
FieldsOf(status, points_1, points_2) ==
    LET given == [status |-> status, customfield_1 |-> points_1,
                  customfield_2 |-> points_2]
        keys == {k \in DOMAIN given : given[k].some}
    IN  [k \in keys |-> given[k].v]

\* Values of fields.status: a Done category under another status name, an
\* open category under the status name Done, no category at all, a
\* category that is not an object, one without a name, one whose name is
\* not a string, one in lower case, and a status that is not an object.
StatusValues ==
    {JObj([statusCategory |-> JObj([name |-> JStr("Done")]), name |-> JStr("Closed")]),
     JObj([statusCategory |-> JObj([name |-> JStr("In Progress")]), name |-> JStr("Done")]),
     JObj([name |-> JStr("Done")]),
     JObj([statusCategory |-> JStr("Done"), name |-> JStr("Done")]),
     JObj([statusCategory |-> JObj(<<>>), name |-> JStr("Done")]),
     JObj([statusCategory |-> JObj([name |-> JNum(F64(1, 1))])]),
     JObj([statusCategory |-> JObj([name |-> JStr("done")])]),
     JStr("Done")}

\* Values of a custom field: null, a string, zero, five, three and a half.
PointValues ==
    {JNull, JStr("5"), JNum(F64(0, 1)), JNum(F64(5, 1)), JNum(F64(7, 2))}

ClassifyIssues ==
    {Issue("PROJ-1", FieldsOf(st, p1, p2)) :
        st \in OptionOf(StatusValues),
        p1 \in OptionOf(PointValues),
        p2 \in OptionOf(PointValues)}

\* field_ids as run builds it: the resolved ids, then "status".
ClassifyFieldIds ==
    {<<"status">>,
     <<"customfield_1", "status">>,
     <<"customfield_1", "customfield_2", "status">>,
     <<"customfield_2", "customfield_1", "status">>}

InitClassify ==
    /\ NoRun
    /\ arg \in [issue : ClassifyIssues, field_ids : ClassifyFieldIds]
    /\ ret = None

Classify ==
    /\ ret = None
    /\ ret' = Some(classify(arg.issue, arg.field_ids))
    /\ UNCHANGED <<pipeline_vars, arg>>

SpecClassify == InitClassify /\ [][Classify]_vars

\* Issues in one tally after the fixed example.
MaxIssues == 2

OpenStatus == JObj([statusCategory |-> JObj([name |-> JStr("To Do")]), name |-> JStr("Open")])

DoneStatus == JObj([statusCategory |-> JObj([name |-> JStr("Done")]), name |-> JStr("Closed")])

DoneIssue == Issue("PROJ-1", [status |-> DoneStatus, customfield_1 |-> JNum(F64(5, 1))])

PointedIssue(n, d) == Issue("PROJ-2", [status |-> OpenStatus, customfield_1 |-> JNum(F64(n, d))])

UnpointedIssue == Issue("PROJ-3", [status |-> OpenStatus])

TallyIssues ==
    {DoneIssue, PointedIssue(5, 1), PointedIssue(3, 1), PointedIssue(7, 2),
     PointedIssue(0, 1), UnpointedIssue}

\* [Complete, IncompleteAndPointed(5), IncompleteAndPointed(3),
\*  IncompleteAndUnpointed, IncompleteAndUnpointed]
TallyExample ==
    <<DoneIssue, PointedIssue(5, 1), PointedIssue(3, 1), UnpointedIssue,
      UnpointedIssue>>

TallyFieldIds == <<"customfield_1", "status">>

InitTally ==
    /\ NoRun
    /\ arg \in [issues : Lists(TallyIssues, MaxIssues) \cup {TallyExample},
                default_story_points : {F64(2, 1), F64(3, 1)},
                velocity_in_story_points : {F64(4, 1), F64(3, 1), F64(0, 1)}]
    /\ ret = None

Tally ==
    /\ ret = None
    /\ ret' = Some(tally(arg.issues, TallyFieldIds, arg.default_story_points,
                         arg.velocity_in_story_points))
    /\ UNCHANGED <<pipeline_vars, arg>>

SpecTally == InitTally /\ [][Tally]_vars

----------------------------------------------------------------------------
(* Claims about the functions on their own. *)

\* C2: build_issue_search_jql fails exactly when projects and labels are
\* both empty, whatever the issue types are, and then with the too-broad
\* message; with a project or a label it succeeds.
BuildFailsIffNoProjectAndNoLabel ==
    ret.some =>
        /\ ~ret.v.ok <=> (arg.projects = <<>> /\ arg.labels = <<>>)
        /\ ~ret.v.ok => ret.v.e = TooBroadMessage

\* Issue types alone were given, and the build failed.
BuildFailsWitness ==
    /\ ret.some
    /\ arg.projects = <<>>
    /\ arg.labels = <<>>
    /\ arg.included_issue_types # <<>>
    /\ ~ret.v.ok

\* The positions of the descriptors named name, and the k-th of them.
MatchingPositions(fields, name) == {i \in 1..Len(fields) : fields[i].name = name}

KthMatch(fields, name, k) ==
    CHOOSE i \in MatchingPositions(fields, name) :
        Cardinality({j \in MatchingPositions(fields, name) : j <= i}) = k

\* C9: field resolution returns one id per descriptor whose name is the
\* requested name exactly, all of them, in the order the descriptors came
\* in, and the empty sequence when none has that name.
FieldResolutionReturnsEveryMatch ==
    ret.some =>
        /\ Len(ret.v) = Cardinality(MatchingPositions(arg.fields, arg.name))
        /\ \A k \in 1..Len(ret.v) :
              ret.v[k] = arg.fields[KthMatch(arg.fields, arg.name, k)].id
        /\ MatchingPositions(arg.fields, arg.name) = {} => ret.v = <<>>

\* Two descriptors share the requested name and both ids came back, the
\* later descriptor's id last.
FieldResolutionWitness ==
    /\ ret.some
    /\ arg.name = "Story Points"
    /\ arg.fields = <<Field("customfield_2", "Story Points"),
                      Field("customfield_1", "Story Points")>>
    /\ ret.v = <<"customfield_2", "customfield_1">>

\* The characters C10 lists as reserved.
ListedReserved ==
    {"+", "-", "&", "|", "!", "(", ")", "{", "}", "[", "]", "^", "~", "*",
     "?", "\\", ":"}

\* What C10 says one character becomes.
EscapedForm(c) ==
    IF c = "\"" THEN <<"\\", "\"">>
    ELSE IF c \in ListedReserved THEN <<"\\", "\\", c>>
    ELSE <<c>>

\* Where the form of the i-th character starts in the rendered value: after
\* the opening quote and the forms of the characters before it.
RECURSIVE FormStart(_, _)
FormStart(s, i) ==
    IF i = 1 THEN 2 ELSE FormStart(s, i - 1) + Len(EscapedForm(s[i - 1]))

\* C10: a rendered text value is an opening quote, then for each character
\* of the input, in order, a backslash and the quote for a double quote,
\* two backslashes and the character for a reserved character and the
\* character itself otherwise, then a closing quote; foo"bar renders as
\* "foo\"bar" and a+b as "a\\+b".
EscapeMapsEachCharacter ==
    ret.some =>
        /\ Len(ret.v) = FormStart(arg, Len(arg) + 1)
        /\ ret.v[1] = "\""
        /\ ret.v[Len(ret.v)] = "\""
        /\ \A i \in 1..Len(arg) :
              SubSeq(ret.v, FormStart(arg, i), FormStart(arg, i + 1) - 1)
                  = EscapedForm(arg[i])
        /\ arg = <<"f", "o", "o", "\"", "b", "a", "r">> =>
              ret.v = <<"\"", "f", "o", "o", "\\", "\"", "b", "a", "r", "\"">>
        /\ arg = <<"a", "+", "b">> =>
              ret.v = <<"\"", "a", "\\", "\\", "+", "b", "\"">>

\* a+b was rendered.
EscapeWitness ==
    /\ ret.some
    /\ arg = <<"a", "+", "b">>
    /\ Len(ret.v) = 7

\* The string at fields.status.statusCategory.name, when every step of
\* that path exists.
StatusCategoryName(issue) ==
    IF /\ "status" \in DOMAIN issue.fields
       /\ issue.fields["status"].t = "obj"
       /\ "statusCategory" \in DOMAIN issue.fields["status"].m
       /\ issue.fields["status"].m["statusCategory"].t = "obj"
       /\ "name" \in DOMAIN issue.fields["status"].m["statusCategory"].m
       /\ issue.fields["status"].m["statusCategory"].m["name"].t = "str"
    THEN Some(issue.fields["status"].m["statusCategory"].m["name"].s)
    ELSE None

\* C6: classify returns Complete exactly for the issues whose
\* status-category name is present and equal to "Done", whatever their
\* point fields hold.
CompleteIffStatusCategoryDone ==
    ret.some =>
        (ret.v = Complete <=> StatusCategoryName(arg.issue) = Some("Done"))

\* An issue whose status has no statusCategory was classified Complete.
CompleteWithoutStatusCategory ==
    /\ ret.some
    /\ ret.v = Complete
    /\ arg.issue.fields["status"] = JObj([name |-> JStr("Done")])
    /\ StatusCategoryName(arg.issue) = None

\* The half of C6 the code keeps: a status category named "Done" gives
\* Complete, whatever the point fields hold.
StatusCategoryDoneIsComplete ==
    ret.some /\ StatusCategoryName(arg.issue) = Some("Done") => ret.v = Complete

\* The position in ids of the first id whose value in the issue is a JSON
\* number; 0 when there is none.
NumericPositions(issue, ids) ==
    {i \in 1..Len(ids) : /\ ids[i] \in DOMAIN issue.fields
                         /\ issue.fields[ids[i]].t = "num"}

FirstNumericPosition(issue, ids) ==
    IF NumericPositions(issue, ids) = {} THEN 0
    ELSE CHOOSE i \in NumericPositions(issue, ids) :
             \A j \in NumericPositions(issue, ids) : i <= j

\* What C7 says classify returns for an issue that is not Done.
ScanResult(issue, ids) ==
    LET first == FirstNumericPosition(issue, ids)
    IN  IF first = 0 THEN IncompleteAndUnpointed
        ELSE IF issue.fields[ids[first]].n = F64(0, 1) THEN IncompleteAndUnpointed
        ELSE IncompleteAndPointed(issue.fields[ids[first]].n)

\* C7: for an issue whose status category is not "Done", classify returns
\* what the first numeric field in the order of fieldIds gives:
\* IncompleteAndUnpointed for 0, IncompleteAndPointed(value) otherwise, and
\* IncompleteAndUnpointed when no field holds a number.
NotDoneUsesFirstNumericField ==
    ret.some /\ StatusCategoryName(arg.issue) # Some("Done") =>
        ret.v = ScanResult(arg.issue, arg.field_ids)

\* An issue with no status category and 5 points was classified Complete.
PointedIssueClassifiedComplete ==
    /\ ret.some
    /\ StatusCategoryName(arg.issue) = None
    /\ arg.field_ids = <<"customfield_1", "status">>
    /\ ScanResult(arg.issue, arg.field_ids) = IncompleteAndPointed(F64(5, 1))
    /\ ret.v = Complete

\* C7 read with "not Done" as "status_category() did not return Done": the
\* scan of the point fields then decides, as C7 says.
NotCompleteUsesFirstNumericField ==
    ret.some /\ status_category(arg.issue) # Some("Done") =>
        ret.v = ScanResult(arg.issue, arg.field_ids)

\* How many of the issues classify puts in the class named tag.
CountOf(issues, ids, tag) ==
    Cardinality({i \in 1..Len(issues) : classify(issues[i], ids).tag = tag})

\* The points of the first k issues that classify as IncompleteAndPointed.
RECURSIVE PointedSum(_, _, _)
PointedSum(issues, ids, k) ==
    IF k = 0 THEN F64(0, 1)
    ELSE LET c == classify(issues[k], ids)
         IN  IF c.tag = "IncompleteAndPointed"
             THEN FAdd(PointedSum(issues, ids, k - 1), c.points)
             ELSE PointedSum(issues, ids, k - 1)

\* C8: tally counts every issue in exactly one of its three counters, so
\* the counters add up to the number of issues; the estimated points are
\* the sum over the IncompleteAndPointed issues alone; the unestimated
\* points are the unpointed count times the default, the unfinished points
\* the sum of both, and the sprints remaining the unfinished points
\* divided by the velocity.  The example of C8 gives 8, 4, 12 and 3.
TallyCountsAndSums ==
    ret.some =>
        LET r == ret.v
            n == Len(arg.issues)
        IN  /\ r.num_complete = F64(CountOf(arg.issues, TallyFieldIds, "Complete"), 1)
            /\ r.num_incomplete_and_pointed =
                  F64(CountOf(arg.issues, TallyFieldIds, "IncompleteAndPointed"), 1)
            /\ r.num_incomplete_and_unpointed =
                  F64(CountOf(arg.issues, TallyFieldIds, "IncompleteAndUnpointed"), 1)
            /\ FAdd(r.num_complete,
                    FAdd(r.num_incomplete_and_pointed,
                         r.num_incomplete_and_unpointed)) = F64(n, 1)
            /\ r.unfinished_estimated_story_points =
                  PointedSum(arg.issues, TallyFieldIds, n)
            /\ r.unfinished_unestimated_story_points =
                  FMul(r.num_incomplete_and_unpointed, arg.default_story_points)
            /\ r.unfinished_story_points =
                  FAdd(r.unfinished_estimated_story_points,
                       r.unfinished_unestimated_story_points)
            /\ arg.velocity_in_story_points.n # 0 =>
                  /\ r.num_sprints_remaining.d > 0
                  /\ FMul(r.num_sprints_remaining, arg.velocity_in_story_points)
                        = r.unfinished_story_points
            /\ arg.velocity_in_story_points.n = 0 => r.num_sprints_remaining.d = 0
            /\ (/\ arg.issues = TallyExample
                /\ arg.default_story_points = F64(2, 1)
                /\ arg.velocity_in_story_points = F64(4, 1)) =>
                  /\ r.unfinished_estimated_story_points = F64(8, 1)
                  /\ r.unfinished_unestimated_story_points = F64(4, 1)
                  /\ r.unfinished_story_points = F64(12, 1)
                  /\ r.num_sprints_remaining = F64(3, 1)

\* The example of C8 was tallied.
TallyWitness ==
    /\ ret.some
    /\ arg.issues = TallyExample
    /\ arg.default_story_points = F64(2, 1)
    /\ arg.velocity_in_story_points = F64(4, 1)
    /\ ret.v.num_sprints_remaining = F64(3, 1)

----------------------------------------------------------------------------
(* The rendering of a built query. *)

\* build_issue_search_jql, and for a built statement its serialization (as
\* Serialize for JQLStatement puts it in the search request).
BuildAndSerialize ==
    /\ ret = None
    /\ LET built == build_issue_search_jql(arg.projects, arg.labels,
                                           arg.included_issue_types)
       IN  ret' = Some([jql |-> built,
                        text |-> IF built.ok
                                 THEN Some(JQLStatement_serialize_internal(built.v))
                                 ELSE None])
    /\ UNCHANGED <<pipeline_vars, arg>>

SpecRender == InitBuild /\ [][BuildAndSerialize]_vars

\* What C11 says the values of one list render as: each value's rendering,
\* in input order, ", " between neighbours.
RECURSIVE ValuesText(_)
ValuesText(values) ==
    IF Len(values) = 1
    THEN JQLValue_serialize_internal(JQLValueString(values[1]))
    ELSE ValuesText(SubSeq(values, 1, Len(values) - 1)) \o <<",", " ">>
         \o JQLValue_serialize_internal(JQLValueString(values[Len(values)]))

\* field IN (values)
MembershipText(field, values) ==
    field \o <<" ", "I", "N", " ", "(">> \o ValuesText(values) \o <<")">>

\* The membership clauses C11 expects, in the order project, labels,
\* issuetype, one for each list that is not empty.
ExpectedClauses(projects, labels, types) ==
    (IF projects # <<>>
     THEN <<MembershipText(<<"p", "r", "o", "j", "e", "c", "t">>, projects)>>
     ELSE <<>>)
    \o (IF labels # <<>>
        THEN <<MembershipText(<<"l", "a", "b", "e", "l", "s">>, labels)>>
        ELSE <<>>)
    \o (IF types # <<>>
        THEN <<MembershipText(<<"i", "s", "s", "u", "e", "t", "y", "p", "e">>, types)>>
        ELSE <<>>)

\* One, two or three clauses between parentheses, " AND " between them.
ConjunctionText(clauses) ==
    LET and == <<" ", "A", "N", "D", " ">>
    IN  CASE Len(clauses) = 1 -> <<"(">> \o clauses[1] \o <<")">>
          [] Len(clauses) = 2 -> <<"(">> \o clauses[1] \o and \o clauses[2] \o <<")">>
          [] Len(clauses) = 3 -> <<"(">> \o clauses[1] \o and \o clauses[2] \o and
                                 \o clauses[3] \o <<")">>

\* C11: a successfully built query renders as one parenthesised
\* conjunction of exactly the membership clauses whose list is not empty,
\* in the order project, labels, issuetype, joined by " AND ", each clause
\* as field IN (values) with the values in input order joined by ", "; it
\* has one to three clauses and is never "()".
RenderedQueryIsOrderedConjunction ==
    ret.some /\ ret.v.jql.ok =>
        LET expected == ExpectedClauses(arg.projects, arg.labels,
                                        arg.included_issue_types)
        IN  /\ Len(ret.v.jql.v.clause.clauses) = Len(expected)
            /\ Len(expected) \in 1..3
            /\ ret.v.text = Some(ConjunctionText(expected))
            /\ ret.v.text.v # <<"(", ")">>

\* Two projects and an issue type were given, no label, and the query was
\* rendered.
RenderedQueryWitness ==
    /\ ret.some
    /\ arg.projects = <<<<"A">>, <<"a", "+", "b">>>>
    /\ arg.labels = <<>>
    /\ arg.included_issue_types = <<<<"A">>>>
    /\ ret.v.text = Some(
          <<"(", "p", "r", "o", "j", "e", "c", "t", " ", "I", "N", " ", "(",
            "\"", "A", "\"", ",", " ", "\"", "a", "\\", "\\", "+", "b", "\"", ")",
            " ", "A", "N", "D", " ",
            "i", "s", "s", "u", "e", "t", "y", "p", "e", " ", "I", "N", " ", "(",
            "\"", "A", "\"", ")", ")">>)

----------------------------------------------------------------------------
(* The status-category lookup on its own. *)

StatusCategoryOf ==
    /\ ret = None
    /\ ret' = Some(status_category(arg.issue))
    /\ UNCHANGED <<pipeline_vars, arg>>

SpecStatusCategory == InitClassify /\ [][StatusCategoryOf]_vars

\* The issue's status is an object.
HasStatusObject(issue) ==
    /\ "status" \in DOMAIN issue.fields
    /\ issue.fields["status"].t = "obj"

\* The status object has no statusCategory key.
LacksStatusCategory(issue) ==
    /\ HasStatusObject(issue)
    /\ "statusCategory" \notin DOMAIN issue.fields["status"].m

\* The status object has a statusCategory that is not an object.
StatusCategoryNotObject(issue) ==
    /\ HasStatusObject(issue)
    /\ "statusCategory" \in DOMAIN issue.fields["status"].m
    /\ issue.fields["status"].m["statusCategory"].t # "obj"

\* C12: status_category yields a value only from
\* fields.status.statusCategory.name: for an issue whose status object has
\* no statusCategory, or one that is not an object, it returns None, also
\* when the status object has a string "name" of its own, and the issue is
\* not classified Complete.
NoStatusCategoryGivesNone ==
    (/\ ret.some
     /\ LacksStatusCategory(arg.issue) \/ StatusCategoryNotObject(arg.issue)) =>
        /\ ret.v = None
        /\ classify(arg.issue, arg.field_ids) # Complete

\* status_category returned the status object's own name for an issue
\* without a statusCategory.
StatusNameReturnedAsCategory ==
    /\ ret.some
    /\ LacksStatusCategory(arg.issue)
    /\ arg.issue.fields["status"].m["name"] = JStr("Done")
    /\ ret.v = Some("Done")

\* The part of C12 the code keeps: a statusCategory that is not an object
\* gives None, whatever name the status object has, and whenever
\* status_category returns None the issue is not classified Complete.
StatusCategoryNotObjectGivesNone ==
    ret.some =>
        /\ StatusCategoryNotObject(arg.issue) => ret.v = None
        /\ ret.v = None => classify(arg.issue, arg.field_ids) # Complete

----------------------------------------------------------------------------
(* Quotes in a rendered text value. *)

\* The number of backslashes in a row that end right before position i.
RECURSIVE BackslashRun(_, _)
BackslashRun(s, i) ==
    IF i > 1 /\ s[i - 1] = "\\" THEN 1 + BackslashRun(s, i - 1) ELSE 0

\* C13: in a rendered text value every double quote strictly between the
\* two wrapping quotes has an odd number of backslashes in a row right
\* before it, so no input ends the quoted value early.
InnerQuotesAreEscaped ==
    ret.some =>
        \A i \in 2..(Len(ret.v) - 1) :
            ret.v[i] = "\"" => BackslashRun(ret.v, i) % 2 = 1

\* A backslash followed by a quote was rendered: four backslashes, then
\* the quote.
BackslashQuoteRendered ==
    /\ ret.some
    /\ arg = <<"\\", "\"">>
    /\ ret.v = <<"\"", "\\", "\\", "\\", "\\", "\"", "\"">>

\* C13 for the inputs in which no quote comes right after a backslash:
\* there every inner quote has exactly one backslash before it.
InnerQuotesEscapedWithoutBackslashBefore ==
    (/\ ret.some
     /\ \A k \in 2..Len(arg) : arg[k] = "\"" => arg[k - 1] # "\\") =>
        \A i \in 2..(Len(ret.v) - 1) :
            ret.v[i] = "\"" => BackslashRun(ret.v, i) = 1

====
